---- MODULE Spec2Model ----
(***************************************************************************)
(* The LevelDB adaptation layer of polygon-edge and its profiler:          *)
(*   - blockchain/storage/leveldb/leveldb.go : levelDBKV (Set, Get, Close) *)
(*   - database/leveldb.go : NewLevelDB, raiseAndReturnFDLimit and meter,  *)
(*     in the two variants the file holds (the older one first).           *)
(*   - profiling/profiling.go and server/server_metrics.go : the profiler  *)
(*     and the Server's enableProfiler and stopProfiler.                   *)
(*                                                                         *)
(* The parts are checked under their own specifications: SpecKV for the    *)
(* key-value facade over an open engine, SpecOpen for option resolution    *)
(* and the engine's open call, SpecMeter for the metering loop,            *)
(* SpecMeterFair for the loop under fair scheduling, SpecProfiler for the  *)
(* profiler's lifecycle.                                                   *)
(*                                                                         *)
(* Optional values are sequences of length at most one: <<>> is Go's nil   *)
(* and <<v>> holds v.  Errors are their message text, "nil" for no error.  *)
(***************************************************************************)
EXTENDS Integers, Sequences, FiniteSets, TLC

VARIABLES
    \* ---- engine behind a levelDBKV handle (leveldb.DB)
    kv,          \* key -> optional value
    closed,      \* the handle has been closed
    \* ---- observation of facade calls
    lastOp,      \* the latest facade call and what it returned
    prevOp,      \* the call before it
    everSet,     \* keys ever passed to Set
    lastSet,     \* key -> optional value of the latest Set that reported success
    engineCalls  \* calls of the engine the latest facade call made

VARIABLES
    \* ---- NewLevelDB: its environment and what it did
    variant,     \* which NewLevelDB of database/leveldb.go runs: "older" or "newer"
    env,         \* environment variable -> its text (empty when unset)
    rlimCur,     \* the process's soft limit on open files
    rlimMax,     \* the process's hard limit on open files
    sysCap,      \* the platform's own cap on the soft limit
    opts,        \* the opt.Options NewLevelDB built
    openedWith,  \* what leveldb.OpenFile was given: <<>> for nil, <<opts>>, or
                 \* "unopened" while the engine was never opened
    ret,         \* what NewLevelDB returned: [db, err]
    fdLimit,     \* what raiseAndReturnFDLimit returned, when it was called
    meters,      \* metering goroutines started
    pcOpen       \* "init", "returned" or "panicked"

VARIABLES
    \* ---- meter: the goroutine's locals
    pcMeter,         \* "idle", "poll" (about to call db.Stats), "wait" (at the
                     \* timer) or "done" (returned)
    i,               \* the tick counter
    stats,           \* leveldb.DBStats as the latest db.Stats filled it
    compactions,     \* the two rows of four counters
    iostats,         \* <<read, write>> recorded at the latest tick
    delaystats,      \* <<count, nanoseconds>> recorded at the latest tick
    lastWritePaused, \* when the latest warning was recorded
    now,             \* the clock, in seconds
    \* ---- observation of the meter
    emitted,         \* gauge name -> optional value set during the latest tick
    hTick,           \* the latest tick: its number, time, what it saw and did
    hPrev,           \* the snapshot of the tick before it, if any
    hWarns           \* the recorded times of all warnings, oldest first

VARIABLES
    \* ---- the profiler (profiling.profiler) and the Server that may hold one
    profEnv,     \* PROFILER_ENABLED and PROFILER_SERVER, as texts
    sProfiler,   \* Server.profiler: <<>> for nil or <<the profiler>>
    pObj,        \* a profiler some other caller made with NewProfiler
    started,     \* profiling sessions pyroscope.Start has begun
    pcProf,      \* "running" or "crashed" (a panic nobody recovers)
    pLast        \* the latest call on the Server or the profiler

profVars == <<profEnv, sProfiler, pObj, started, pcProf, pLast>>

meterVars == <<pcMeter, i, stats, compactions, iostats, delaystats,
               lastWritePaused, now, emitted, hTick, hPrev, hWarns>>

kvVars == <<kv, closed, lastOp, prevOp, everSet, lastSet, engineCalls>>

openVars == <<variant, env, rlimCur, rlimMax, sysCap, opts, openedWith, ret,
              fdLimit, meters, pcOpen>>

vars == <<kvVars, openVars, meterVars, profVars>>

----------------------------------------------------------------------------
\* Bounds of the key-value part.

\* Largest byte used in keys, and in values.
MaxKeyByte == 1

MaxValByte == 2

Keys == {<<>>} \cup {<<b>> : b \in 1..MaxKeyByte}

Values == {<<>>} \cup {<<b>> : b \in 1..MaxValByte}

Nil == <<>>

Some(v) == <<v>>

NoErr == "nil"

\* errors.ErrNotFound, leveldb.ErrClosed and an I/O or corruption failure of
\* the engine.
ErrNotFound == "leveldb: not found"

ErrClosed == "leveldb: closed"

ErrIO == "leveldb: i/o failure"

----------------------------------------------------------------------------
\* The engine (leveldb.DB) as the facade sees it.  Each operator gives the
\* pair <<data, error>> or the error of one engine call.

\* db.Get(key, nil)
dbGet(store, isClosed, fault, key) ==
    IF isClosed THEN <<Nil, ErrClosed>>
    ELSE IF fault THEN <<Nil, ErrIO>>
    ELSE IF store[key] = Nil THEN <<Nil, ErrNotFound>>
    ELSE <<store[key], NoErr>>

\* db.Put(key, value, nil): the error it returns
dbPutErr(isClosed, fault) ==
    IF isClosed THEN ErrClosed ELSE IF fault THEN ErrIO ELSE NoErr

\* db.Put(key, value, nil): the store it leaves
dbPutStore(store, isClosed, fault, key, value) ==
    IF dbPutErr(isClosed, fault) = NoErr
    THEN [store EXCEPT ![key] = Some(value)]
    ELSE store

\* db.Close(): the error it returns
dbCloseErr(isClosed, fault) ==
    IF isClosed THEN ErrClosed ELSE IF fault THEN ErrIO ELSE NoErr

----------------------------------------------------------------------------
\* levelDBKV

\* Get with every engine error passed on, the absence sentinel included.
GetReturnSentinelLeaks(r) ==
    IF r[2] # NoErr THEN <<Nil, FALSE, r[2]>> ELSE <<r[1], TRUE, NoErr>>

\* Get with every engine error swallowed as absence.
GetReturnSwallowsErrors(r) ==
    IF r[2] # NoErr THEN <<Nil, FALSE, NoErr>> ELSE <<r[1], TRUE, NoErr>>

\* What Get returns, <<data, found, error>>, for the engine's <<data, err>>.
GetReturn(r) ==
    IF r[2] # NoErr
    THEN IF r[2] = "leveldb: not found"
         THEN <<Nil, FALSE, NoErr>>
         ELSE <<Nil, FALSE, r[2]>>
    ELSE <<r[1], TRUE, NoErr>>

\* One facade call, as recorded in lastOp.
OpRecord(op, key, val, fault, res) ==
    [op |-> op, key |-> key, val |-> val, fault |-> fault,
     wasClosed |-> closed, before |-> kv, res |-> res]

\* The part of a recorded call kept once another call has followed it.
Brief(o) == [op |-> o.op, key |-> o.key, val |-> o.val, res |-> o.res]

NoOp == [op |-> "none", key |-> Nil, val |-> Nil, fault |-> FALSE,
         wasClosed |-> FALSE, before |-> [k \in Keys |-> Nil],
         res |-> <<Nil, FALSE, NoErr>>]

\* The record of a Set(p, v) that returned err.
SetObserved(p, v, fault, err) ==
    /\ everSet' = everSet \cup {p}
    /\ lastSet' = IF err = NoErr THEN [lastSet EXCEPT ![p] = Some(v)] ELSE lastSet
    /\ prevOp' = Brief(lastOp)
    /\ lastOp' = OpRecord("Set", p, v, fault, <<Nil, FALSE, err>>)

\* Set that acknowledges the write without handing it to the engine.
SetDropsWrite(p, v, fault) ==
    /\ UNCHANGED <<kv, closed>>
    /\ engineCalls' = 0
    /\ SetObserved(p, v, fault, NoErr)

\* Set that removes the key when it already holds the value written.
SetTogglesRepeat(p, v, fault) ==
    /\ kv' = IF kv[p] = Some(v) /\ dbPutErr(closed, fault) = NoErr
             THEN [kv EXCEPT ![p] = Nil]
             ELSE dbPutStore(kv, closed, fault, p, v)
    /\ UNCHANGED closed
    /\ engineCalls' = 1
    /\ SetObserved(p, v, fault, dbPutErr(closed, fault))

\* Set that calls the engine again when the write failed, the engine
\* working by then.
SetRetries(p, v, fault) ==
    LET failed == dbPutErr(closed, fault) # NoErr
    IN /\ kv' = IF failed THEN dbPutStore(kv, closed, FALSE, p, v)
                ELSE dbPutStore(kv, closed, fault, p, v)
       /\ UNCHANGED closed
       /\ engineCalls' = IF failed THEN 2 ELSE 1
       /\ SetObserved(p, v, fault, IF failed THEN dbPutErr(closed, FALSE)
                                   ELSE NoErr)

\* func (l *levelDBKV) Set(p []byte, v []byte) error
Set(p, v, fault) ==
    /\ kv' = dbPutStore(kv, closed, fault, p, v)
    /\ UNCHANGED closed
    /\ engineCalls' = 1
    /\ SetObserved(p, v, fault, dbPutErr(closed, fault))

\* func (l *levelDBKV) Get(p []byte) ([]byte, bool, error)
Get(p, fault) ==
    /\ UNCHANGED <<kv, closed, everSet, lastSet>>
    /\ engineCalls' = 1
    /\ prevOp' = Brief(lastOp)
    /\ lastOp' = OpRecord("Get", p, Nil, fault,
                          GetReturn(dbGet(kv, closed, fault, p)))

\* func (l *levelDBKV) Close() error
Close(fault) ==
    /\ closed' = TRUE
    /\ engineCalls' = 1
    /\ UNCHANGED <<kv, everSet, lastSet>>
    /\ prevOp' = Brief(lastOp)
    /\ lastOp' = OpRecord("Close", Nil, Nil, fault,
                          <<Nil, FALSE, dbCloseErr(closed, fault)>>)

----------------------------------------------------------------------------
\* database/leveldb.go: numbers and the environment.

\* Width of Go's int and uint64 in the model.  Go's are 64 bits wide; the
\* model keeps the structure of the conversions at a width its integers can
\* hold: a uint64 at or above Half converts to a negative int.
WordBits == 30

Half == 2 ^ (WordBits - 1)

MaxUint == (Half - 1) + Half

\* opt.MiB
MiB == 1048576

\* The bits per key NewLevelDB gives filter.NewBloomFilter.
BloomBits == 10

\* int(u) for a uint64 u
ToInt(u) == IF u >= Half THEN (u - Half) - Half ELSE u

\* An int result brought back into range (two's complement).
WrapInt(n) == IF n >= Half THEN (n - Half) - Half
              ELSE IF n < -Half THEN (n + Half) + Half
              ELSE n

\* Go's a / b on ints, b # 0: the quotient truncated toward zero.
GoDiv(a, b) ==
    LET abs(x) == IF x < 0 THEN -x ELSE x
        q == abs(a) \div abs(b)
    IN WrapInt(IF (a < 0) = (b < 0) THEN q ELSE -q)

bloomFilter == "LEVELDB_BLOOM_FILTER"

disableSeekCompaction == "LEVELDB_DISABLE_SEEK_COMPACTION"

cacheSizeMb == "LEVELDB_CACHE_SIZE_MB"

forceFileDescriptorLimit == "LEVELDB_FORCE_FILE_DESCRIPTOR_LIMIT"

forceFileDescriptorDivisor == "LEVELDB_FORCE_FILE_DESCRIPTOR_DIVISOR"

EnvNames == {bloomFilter, disableSeekCompaction, cacheSizeMb,
             forceFileDescriptorLimit, forceFileDescriptorDivisor}

\* Texts an environment variable may hold, as sequences of characters: unset,
\* a flag, and texts that are and are not integers.
FlagTexts == {<<>>, <<"1">>}

NumberTexts == {<<>>, <<"x">>, <<"0">>, <<"2">>, <<"7">>, <<"-", "3">>,
                <<"1", "0", "0">>}

EnvTexts(name) ==
    IF name \in {bloomFilter, disableSeekCompaction, forceFileDescriptorLimit}
    THEN FlagTexts
    ELSE NumberTexts

DigitChars == {"0", "1", "2", "3", "4", "5", "6", "7", "8", "9"}

DigitVal(c) ==
    CASE c = "0" -> 0 [] c = "1" -> 1 [] c = "2" -> 2 [] c = "3" -> 3
      [] c = "4" -> 4 [] c = "5" -> 5 [] c = "6" -> 6 [] c = "7" -> 7
      [] c = "8" -> 8 [] c = "9" -> 9

RECURSIVE DigitsVal(_)
DigitsVal(ds) ==
    IF ds = <<>> THEN 0
    ELSE 10 * DigitsVal(SubSeq(ds, 1, Len(ds) - 1)) + DigitVal(ds[Len(ds)])

\* strconv.Atoi: an optional sign, then one or more decimal digits.
AtoiDigits(t) == IF t # <<>> /\ t[1] \in {"+", "-"} THEN Tail(t) ELSE t

AtoiOk(t) ==
    /\ AtoiDigits(t) # <<>>
    /\ \A x \in 1..Len(AtoiDigits(t)) : AtoiDigits(t)[x] \in DigitChars

AtoiVal(t) ==
    IF t[1] = "-" THEN -DigitsVal(AtoiDigits(t)) ELSE DigitsVal(AtoiDigits(t))

ErrSyntax == "strconv.Atoi: invalid syntax"

\* func isEnvSet(name string) bool
isEnvSet(e, name) == e[name] # <<>>

\* func getEnvInt(name string) (int, error), as <<value, err>>
getEnvInt(e, name) ==
    IF AtoiOk(e[name]) THEN <<AtoiVal(e[name]), NoErr>> ELSE <<0, ErrSyntax>>

----------------------------------------------------------------------------
\* raiseAndReturnFDLimit (the same in both variants)

\* A failing syscall, and a failing leveldb.OpenFile.
ErrSys == "operation not permitted"

ErrOpen == "resource temporarily unavailable"

SyscallSteps == {"getrlimit", "setrlimit", "getrlimit2"}

Min(a, b) == IF a < b THEN a ELSE b

\* The soft limit in force after a successful Setrlimit asking for reqCur: the
\* platform may apply its own cap.
SetrlimitSoft(reqCur, cap) == Min(reqCur, cap)

\* func raiseAndReturnFDLimit() (uint64, error): what it returns and the soft
\* limit it leaves, from soft limit cur and hard limit max; failAt names the
\* syscall that fails, if one does.  The Rlimit read is handed back to
\* Setrlimit as read.
raiseAndReturnFDLimit(cur, max, cap, failAt) ==
    IF failAt = "getrlimit"
    THEN [limit |-> 0, err |-> ErrSys, cur |-> cur]
    ELSE LET limitCur == cur
         IN IF failAt = "setrlimit"
            THEN [limit |-> 0, err |-> ErrSys, cur |-> cur]
            ELSE LET after == SetrlimitSoft(limitCur, cap)
                 IN IF failAt = "getrlimit2"
                    THEN [limit |-> 0, err |-> ErrSys, cur |-> after]
                    ELSE [limit |-> after, err |-> NoErr, cur |-> after]

----------------------------------------------------------------------------
\* NewLevelDB

\* opts := &opt.Options{}
ZeroOptions ==
    [OpenFilesCacheCapacity |-> 0, Filter |-> Nil,
     DisableSeeksCompaction |-> FALSE, BlockCacheCapacity |-> 0,
     WriteBuffer |-> 0]

NotOpened == [called |-> FALSE, arg |-> Nil]

\* The handle leveldb.OpenFile returns.
TheDB == Some("db")

\* The error of the negotiation logged and the open carried out all the same.
ReturnEarlyIgnored(o, fd) ==
    /\ opts' = o
    /\ openedWith' = [called |-> TRUE, arg |-> Some(o)]
    /\ ret' = [db |-> TheDB, err |-> NoErr]
    /\ fdLimit' = Some(fd.limit)
    /\ rlimCur' = fd.cur
    /\ pcOpen' = "returned"
    /\ meters' = meters + 1

\* NewLevelDB returns (nil, err) before the engine's open call.
ReturnEarly(o, fd) ==
    /\ opts' = o
    /\ openedWith' = NotOpened
    /\ ret' = [db |-> Nil, err |-> fd.err]
    /\ fdLimit' = Some(fd.limit)
    /\ rlimCur' = fd.cur
    /\ pcOpen' = "returned"
    /\ UNCHANGED meters

\* The same with go meter(...) placed before the test of the open's error.
OpenAndMeterUnchecked(o, arg, fdl, cur, openFails) ==
    /\ opts' = o
    /\ openedWith' = [called |-> TRUE, arg |-> arg]
    /\ ret' = IF openFails THEN [db |-> Nil, err |-> ErrOpen]
              ELSE [db |-> TheDB, err |-> NoErr]
    /\ meters' = meters + 1
    /\ fdLimit' = fdl
    /\ rlimCur' = cur
    /\ pcOpen' = "returned"

\* db, err = leveldb.OpenFile(path, arg); on success go meter(...); return
OpenAndMeter(o, arg, fdl, cur, openFails) ==
    /\ opts' = o
    /\ openedWith' = [called |-> TRUE, arg |-> arg]
    /\ ret' = IF openFails THEN [db |-> Nil, err |-> ErrOpen]
              ELSE [db |-> TheDB, err |-> NoErr]
    /\ meters' = IF openFails THEN meters ELSE meters + 1
    /\ fdLimit' = fdl
    /\ rlimCur' = cur
    /\ pcOpen' = "returned"

\* The cache fields of the newer variant: set when the text parses.
CacheOptions(o, cs) ==
    IF cs[2] = NoErr
    THEN [o EXCEPT !.BlockCacheCapacity = GoDiv(cs[1], 2) * MiB,
                   !.WriteBuffer = GoDiv(cs[1], 4) * MiB]
    ELSE o

\* The cache fields of the older variant: set when the text does not parse.
CacheOptionsOlder(o, cs) ==
    IF cs[2] # NoErr
    THEN [o EXCEPT !.BlockCacheCapacity = GoDiv(cs[1], 2) * MiB,
                   !.WriteBuffer = GoDiv(cs[1], 4) * MiB]
    ELSE o

\* openFilesCacheCapacity := int(limit) / value
OpenFilesCapacity(limit, value) == GoDiv(ToInt(limit), value)

\* opts.OpenFilesCacheCapacity = int(limit / 2)
OpenFilesCapacityOlder(limit) == ToInt(limit \div 2)

\* func NewLevelDB(path string, name string, logger hclog.Logger), the newer
\* variant.  failAt and openFails are what the system and the engine do.
NewLevelDB(failAt, openFails) ==
    /\ variant = "newer"
    /\ pcOpen = "init"
    /\ LET div == getEnvInt(env, forceFileDescriptorDivisor)
           fd == raiseAndReturnFDLimit(rlimCur, rlimMax, sysCap, failAt)
           cs == getEnvInt(env, cacheSizeMb)
           fixed(o) == [o EXCEPT !.Filter = Some(BloomBits),
                                 !.DisableSeeksCompaction = TRUE]
       IN IF div[2] = NoErr
          THEN IF fd.err # NoErr
               THEN ReturnEarly(ZeroOptions, fd)
               ELSE IF div[1] = 0
                    THEN \* integer divide by zero: the goroutine panics
                         /\ pcOpen' = "panicked"
                         /\ fdLimit' = Some(fd.limit)
                         /\ rlimCur' = fd.cur
                         /\ UNCHANGED <<opts, openedWith, ret, meters>>
                    ELSE LET o1 == [ZeroOptions EXCEPT
                                      !.OpenFilesCacheCapacity =
                                          OpenFilesCapacity(fd.limit, div[1])]
                             o == CacheOptions(fixed(o1), cs)
                         IN OpenAndMeter(o, Some(o), Some(fd.limit), fd.cur,
                                         openFails)
          ELSE LET o == CacheOptions(fixed(ZeroOptions), cs)
               IN OpenAndMeter(o, Some(o), Nil, rlimCur, openFails)
    /\ UNCHANGED <<variant, env, rlimMax, sysCap>>

\* func NewLevelDB(path string, name string), the older variant: the options
\* it builds are not the ones it opens the engine with.
NewLevelDBOlder(failAt, openFails) ==
    /\ variant = "older"
    /\ pcOpen = "init"
    /\ LET fd == raiseAndReturnFDLimit(rlimCur, rlimMax, sysCap, failAt)
           cs == getEnvInt(env, cacheSizeMb)
           forced == isEnvSet(env, forceFileDescriptorLimit)
           o1 == IF forced
                 THEN [ZeroOptions EXCEPT !.OpenFilesCacheCapacity =
                                              OpenFilesCapacityOlder(fd.limit)]
                 ELSE ZeroOptions
           o2 == IF isEnvSet(env, bloomFilter)
                 THEN [o1 EXCEPT !.Filter = Some(BloomBits)] ELSE o1
           o3 == IF isEnvSet(env, disableSeekCompaction)
                 THEN [o2 EXCEPT !.DisableSeeksCompaction = TRUE] ELSE o2
           o == CacheOptionsOlder(o3, cs)
       IN IF forced /\ fd.err # NoErr
          THEN ReturnEarly(ZeroOptions, fd)
          ELSE OpenAndMeter(o, Nil,
                            IF forced THEN Some(fd.limit) ELSE Nil,
                            IF forced THEN fd.cur ELSE rlimCur, openFails)
    /\ UNCHANGED <<variant, env, rlimMax, sysCap>>

\* Soft and hard limits a process may start with, and platform caps.
RlimitStarts == {<<1024, 4096>>, <<4096, 4096>>, <<1024, MaxUint>>,
                 <<Half, MaxUint>>, <<MaxUint, MaxUint>>}

CapStarts == {4096, MaxUint}

\* Before NewLevelDB is called.
OpenStart ==
    /\ variant \in {"older", "newer"}
    /\ env \in {e \in [EnvNames -> FlagTexts \cup NumberTexts] :
                  \A n \in EnvNames : e[n] \in EnvTexts(n)}
    /\ \E r \in RlimitStarts, c \in CapStarts :
          /\ r[1] <= c
          /\ rlimCur = r[1] /\ rlimMax = r[2] /\ sysCap = c
    /\ opts = ZeroOptions
    /\ openedWith = NotOpened
    /\ ret = [db |-> Nil, err |-> NoErr]
    /\ fdLimit = Nil
    /\ meters = 0
    /\ pcOpen = "init"

\* A handle opened by the newer variant with nothing set in the environment.
OpenDone ==
    /\ variant = "newer"
    /\ env = [n \in EnvNames |-> <<>>]
    /\ rlimCur = 1024 /\ rlimMax = 4096 /\ sysCap = 4096
    /\ opts = [ZeroOptions EXCEPT !.Filter = Some(BloomBits),
                                  !.DisableSeeksCompaction = TRUE]
    /\ openedWith = [called |-> TRUE, arg |-> Some(opts)]
    /\ ret = [db |-> TheDB, err |-> NoErr]
    /\ fdLimit = Nil
    /\ meters = 1
    /\ pcOpen = "returned"

----------------------------------------------------------------------------
\* meter: what the engine reports

\* Ticks a metering loop is followed for.
MaxTicks == 3

\* The clock when the metering loop starts, in seconds since the zero time.
StartTime == 1000

\* The zero value of time.Time, which lastWritePaused starts as.
ZeroTime == 0

\* time.Minute and the refresh interval NewLevelDB gives meter, in seconds.
Minute == 60

refresh == 5

\* How long past the refresh interval a timer wait may last, and how long
\* after the warning's test of the clock its time is recorded.
ExtraDelays == {0, 55}

Jitters == {0, 1}

RECURSIVE Sum(_)
Sum(q) == IF q = <<>> THEN 0 ELSE Head(q) + Sum(Tail(q))

\* Per-level tables of the engine at successive stages of its life, each
\* cumulative counter growing: level sizes in bytes, compaction durations in
\* nanoseconds, bytes read and written by compaction, table counts, and
\* the counts of memory, level-0, other-level and seek compactions.
CompStages ==
    << [LevelSizes |-> <<>>, LevelDurations |-> <<>>, LevelRead |-> <<>>,
        LevelWrite |-> <<>>, LevelTablesCounts |-> <<>>,
        MemComp |-> 0, Level0Comp |-> 0, NonLevel0Comp |-> 0, SeekComp |-> 0],
       [LevelSizes |-> <<6, 3>>, LevelDurations |-> <<3, 4>>,
        LevelRead |-> <<2, 0>>, LevelWrite |-> <<1, 0>>,
        LevelTablesCounts |-> <<2, 1>>,
        MemComp |-> 1, Level0Comp |-> 1, NonLevel0Comp |-> 0, SeekComp |-> 0],
       [LevelSizes |-> <<16777217, 4>>, LevelDurations |-> <<16777220, 4>>,
        LevelRead |-> <<2, 9>>, LevelWrite |-> <<1, 5>>,
        LevelTablesCounts |-> <<1, 1>>,
        MemComp |-> 3, Level0Comp |-> 2, NonLevel0Comp |-> 4, SeekComp |-> 1] >>

\* Cumulative <<WriteDelayCount, WriteDelayDuration>> at successive stages.
DelayStages == << <<0, 0>>, <<0, 2>>, <<1, 16777219>> >>

\* Cumulative <<IORead, IOWrite>> at successive stages.
IOStages == << <<0, 0>>, <<8, 3>> >>

\* The snapshot of the engine at stages c, d and io, write-paused or not.
Snapshot(c, d, io, paused) ==
    [comp |-> c, delay |-> d, io |-> io,
     LevelSizes |-> CompStages[c].LevelSizes,
     LevelDurations |-> CompStages[c].LevelDurations,
     LevelRead |-> CompStages[c].LevelRead,
     LevelWrite |-> CompStages[c].LevelWrite,
     LevelTablesCounts |-> CompStages[c].LevelTablesCounts,
     MemComp |-> CompStages[c].MemComp,
     Level0Comp |-> CompStages[c].Level0Comp,
     NonLevel0Comp |-> CompStages[c].NonLevel0Comp,
     SeekComp |-> CompStages[c].SeekComp,
     WriteDelayCount |-> DelayStages[d][1],
     WriteDelayDuration |-> DelayStages[d][2],
     WritePaused |-> paused,
     IORead |-> IOStages[io][1],
     IOWrite |-> IOStages[io][2]]

\* var stats leveldb.DBStats
ZeroStats == Snapshot(1, 1, 1, FALSE)

\* The snapshots the engine may report after it reported st: no cumulative
\* counter goes back.
LaterSnapshots(st) ==
    {Snapshot(c, d, io, p) :
        c \in st.comp..Len(CompStages), d \in st.delay..Len(DelayStages),
        io \in st.io..Len(IOStages), p \in BOOLEAN}

\* db.Stats(&stats): the error it returns
dbStatsErr(isClosed) == IF isClosed THEN ErrClosed ELSE NoErr

----------------------------------------------------------------------------
\* meter: the gauges

\* float32(value) for an integer: the nearest value with a 24-bit
\* significand, ties to the even one.
RECURSIVE Float32Unit(_, _)
Float32Unit(m, u) == IF m \div u < 2 ^ 24 THEN u ELSE Float32Unit(m, 2 * u)

Float32(n) ==
    LET m == IF n < 0 THEN -n ELSE n
        u == Float32Unit(m, 1)
        q == m \div u
        r == m % u
        up == 2 * r > u \/ (2 * r = u /\ q % 2 = 1)
        v == (IF up THEN q + 1 ELSE q) * u
    IN IF n < 0 THEN -v ELSE v

\* fmt.Sprintf("level_%d_tableCount", i)
LevelGaugeName(l) ==
    CASE l = 0 -> "level_0_tableCount" [] l = 1 -> "level_1_tableCount"

GaugeNames ==
    {"diskSize", "compactTime", "compactRead", "compactWrite",
     "writeDelayNMeter", "writeDelayMeter", "diskRead", "diskWrite",
     "memCompaction", "level0Compaction", "nonlevel0Compaction",
     "seekCompaction", LevelGaugeName(0), LevelGaugeName(1)}

NoGauges == [g \in GaugeNames |-> Nil]

\* setGauge(metricName, value), on the gauges g set so far
setGauge(g, metricName, value) ==
    [g EXCEPT ![metricName] = Some(Float32(value))]

\* The row of compactions a snapshot fills.
CompactionRow(st) ==
    <<Sum(st.LevelSizes), Sum(st.LevelDurations), Sum(st.LevelRead),
      Sum(st.LevelWrite)>>

\* The four gauges with the other row overwritten before the differences
\* are taken.
CompactionGaugesOverwritten(g, n, cur, other) ==
    IF n > 1
    THEN LET g1 == setGauge(g, "diskSize", cur[1])
             g2 == setGauge(g1, "compactTime", cur[2] - cur[2])
             g3 == setGauge(g2, "compactRead", cur[3] - cur[3])
         IN setGauge(g3, "compactWrite", cur[4] - cur[4])
    ELSE g

\* The four gauges with diskSize taken as a difference like the other three.
CompactionGaugesDiskSizeDelta(g, n, cur, other) ==
    IF n > 1
    THEN LET g1 == setGauge(g, "diskSize", cur[1] - other[1])
             g2 == setGauge(g1, "compactTime", cur[2] - other[2])
             g3 == setGauge(g2, "compactRead", cur[3] - other[3])
         IN setGauge(g3, "compactWrite", cur[4] - other[4])
    ELSE g

\* The four gauges of "if i > 1", from the row just filled and the other one.
CompactionGauges(g, n, cur, other) ==
    IF n > 1
    THEN LET g1 == setGauge(g, "diskSize", cur[1])
             g2 == setGauge(g1, "compactTime", cur[2] - other[2])
             g3 == setGauge(g2, "compactRead", cur[3] - other[3])
         IN setGauge(g3, "compactWrite", cur[4] - other[4])
    ELSE g

\* The write-delay and I/O gauges set to the counters themselves.
DeltaGaugesNotSubtracted(g, st, ds, ios) ==
    LET g1 == setGauge(g, "writeDelayNMeter", st.WriteDelayCount)
        g2 == setGauge(g1, "writeDelayMeter", st.WriteDelayDuration)
        g3 == setGauge(g2, "diskRead", st.IORead)
    IN setGauge(g3, "diskWrite", st.IOWrite)

\* The write-delay and I/O gauges: each the counter less its recorded value.
DeltaGauges(g, st, ds, ios) ==
    LET g1 == setGauge(g, "writeDelayNMeter", st.WriteDelayCount - ds[1])
        g2 == setGauge(g1, "writeDelayMeter", st.WriteDelayDuration - ds[2])
        g3 == setGauge(g2, "diskRead", st.IORead - ios[1])
    IN setGauge(g3, "diskWrite", st.IOWrite - ios[2])

RECURSIVE TableGauges(_, _, _)
TableGauges(g, tables, l) ==
    IF l >= Len(tables) THEN g
    ELSE TableGauges(setGauge(g, LevelGaugeName(l), tables[l + 1]), tables, l + 1)

\* The gauges set on every tick from the snapshot's own counters.
InstantGauges(g, st) ==
    LET g1 == setGauge(g, "memCompaction", st.MemComp)
        g2 == setGauge(g1, "level0Compaction", st.Level0Comp)
        g3 == setGauge(g2, "nonlevel0Compaction", st.NonLevel0Comp)
        g4 == setGauge(g3, "seekCompaction", st.SeekComp)
    IN TableGauges(g4, st.LevelTablesCounts, 0)

\* time.Now().After(lastWritePaused.Add(time.Minute)), with no rate limit.
WarnDueAlways(t, last) == TRUE

\* time.Now().After(lastWritePaused.Add(time.Minute))
WarnDue(t, last) == t > last + Minute

\* The test that guards the warning.
WarnTest(st, ds, t, last) ==
    /\ st.WritePaused
    /\ st.WriteDelayCount - ds[1] = 0
    /\ st.WriteDelayDuration - ds[2] = 0
    /\ WarnDue(t, last)

----------------------------------------------------------------------------
\* meter: the loop

\* The record of a tick for the claims: what the engine reported at this
\* poll, whether the engine was stalled (write-paused with both write-delay
\* counters where the poll before left them, 0 before the first), whether
\* the tick warned, when the latest earlier warning was recorded, and the
\* length of the run of stalled ticks ending here with its warnings.
TickRecord(n, st, warned) ==
    LET stalled == /\ st.WritePaused
                   /\ st.WriteDelayCount = stats.WriteDelayCount
                   /\ st.WriteDelayDuration = stats.WriteDelayDuration
    IN [n |-> n, ok |-> TRUE, at |-> now, stats |-> st, warned |-> warned,
        stalled |-> stalled,
        lastWarn |-> IF hWarns = <<>> THEN Nil ELSE Some(hWarns[Len(hWarns)]),
        run |-> IF stalled THEN hTick.run + 1 ELSE 0,
        runWarns |-> IF stalled
                     THEN hTick.runWarns + (IF warned THEN 1 ELSE 0)
                     ELSE 0]

NoTick == [n |-> 0, ok |-> FALSE, at |-> StartTime, stats |-> ZeroStats,
           warned |-> FALSE, stalled |-> FALSE, lastWarn |-> Nil,
           run |-> 0, runWarns |-> 0]

\* db.Stats failed and the loop carries on to its timer wait all the same.
MeterPollFailsContinues ==
    /\ pcMeter' = "wait"
    /\ i' = IF variant = "newer" THEN i + 1 ELSE i
    /\ emitted' = NoGauges
    /\ hTick' = [NoTick EXCEPT !.n = i, !.at = now]
    /\ UNCHANGED <<stats, compactions, iostats, delaystats, lastWritePaused,
                   now, hPrev, hWarns>>

\* db.Stats failed: the newer variant logs and breaks; the older one sets
\* merr and continues, which runs the loop's i++ and ends it.
MeterPollFails ==
    /\ pcMeter' = "done"
    /\ i' = IF variant = "older" THEN i + 1 ELSE i
    /\ emitted' = NoGauges
    /\ hTick' = [NoTick EXCEPT !.n = i, !.at = now]
    /\ UNCHANGED <<stats, compactions, iostats, delaystats, lastWritePaused,
                   now, hPrev, hWarns>>

\* if err != nil, with the error of db.Stats never looked at.
PollFailedIgnored(err) == FALSE

\* if err != nil, on the error db.Stats returned
PollFailed(err) == err # NoErr

\* One pass of the loop body from db.Stats to the timer wait, the engine
\* reporting st; j is how long after the warning's test its time is taken.
MeterTick(st, j) ==
    /\ pcMeter = "poll"
    /\ ~PollFailed(dbStatsErr(closed)) => i <= MaxTicks
    /\ IF PollFailed(dbStatsErr(closed))
       THEN MeterPollFails
       ELSE LET row == (i % 2) + 1
                other == ((i - 1) % 2) + 1
                comp == [compactions EXCEPT ![row] = CompactionRow(st)]
                g1 == CompactionGauges(NoGauges, i, comp[row], comp[other])
                g2 == DeltaGauges(g1, st, delaystats, iostats)
                warn == WarnTest(st, delaystats, now, lastWritePaused)
            IN /\ stats' = st
               /\ compactions' = comp
               /\ emitted' = InstantGauges(g2, st)
               /\ lastWritePaused' = IF warn THEN now + j ELSE lastWritePaused
               /\ now' = IF warn THEN now + j ELSE now
               /\ delaystats' = <<st.WriteDelayCount, st.WriteDelayDuration>>
               /\ iostats' = <<st.IORead, st.IOWrite>>
               /\ i' = IF variant = "newer" THEN i + 1 ELSE i
               /\ pcMeter' = "wait"
               /\ hTick' = TickRecord(i, st, warn)
               /\ hPrev' = IF i > 1 THEN Some(stats) ELSE Nil
               /\ hWarns' = IF warn THEN Append(hWarns, now + j) ELSE hWarns

\* case <-timer.C: timer.Reset(refresh); in the older variant the loop's i++
\* follows.
TimerFires(extra) ==
    /\ pcMeter = "wait"
    /\ pcMeter' = "poll"
    /\ now' = now + refresh + extra
    /\ i' = IF variant = "older" THEN i + 1 ELSE i
    /\ UNCHANGED <<stats, compactions, iostats, delaystats, lastWritePaused,
                   emitted, hTick, hPrev, hWarns>>

\* The locals of meter as it enters its loop.
MeterStart ==
    /\ pcMeter = "poll"
    /\ i = 1
    /\ stats = ZeroStats
    /\ compactions = << <<0, 0, 0, 0>>, <<0, 0, 0, 0>> >>
    /\ iostats = <<0, 0>>
    /\ delaystats = <<0, 0>>
    /\ lastWritePaused = ZeroTime
    /\ now = StartTime
    /\ emitted = NoGauges
    /\ hTick = NoTick
    /\ hPrev = Nil
    /\ hWarns = <<>>

\* The same with the loop left aside.
MeterIdle ==
    /\ pcMeter = "idle"
    /\ i = 1
    /\ stats = ZeroStats
    /\ compactions = << <<0, 0, 0, 0>>, <<0, 0, 0, 0>> >>
    /\ iostats = <<0, 0>>
    /\ delaystats = <<0, 0>>
    /\ lastWritePaused = ZeroTime
    /\ now = StartTime
    /\ emitted = NoGauges
    /\ hTick = NoTick
    /\ hPrev = Nil
    /\ hWarns = <<>>

----------------------------------------------------------------------------
\* profiling/profiling.go and server/server_metrics.go: the profiler.

\* Sessions pyroscope.Start may begin in one run of the model.
MaxStarts == 2

ErrNoServer == "profiling server not defined, define with PROFILER SERVER env var"

\* An error of pyroscope.Start, and one of a session's Stop.
ErrStart == "pyroscope: start failed"

ErrStop == "pyroscope: stop failed"

ServerTexts == {<<>>, <<"h">>}

EnabledTexts == {<<>>, <<"t">>}

\* return &profiler{pConf: pConf}: prof is left nil
NewProfiler(profilerServer, appName) ==
    [prof |-> Nil,
     pConf |-> [ApplicationName |-> appName, ServerAddress |-> profilerServer]]

\* func (p *profiler) Start() error, pyroscope.Start failing or beginning
\* session id: the profiler it leaves and the error it returns.
profilerStart(p, fails, id) ==
    [p |-> [p EXCEPT !.prof = IF fails THEN Nil ELSE Some(id)],
     err |-> IF fails THEN ErrStart ELSE NoErr]

\* func (p *profiler) Stop() error: p.prof.Stop().  On a nil p.prof the
\* call reaches pyroscope's method with a nil receiver; onNil is what that
\* does, a panic or a return of nil.  Otherwise the session's Stop returns
\* stopErr.
profilerStop(p, onNil, stopErr) ==
    IF p.prof = Nil
    THEN [crashed |-> onNil = "panic", err |-> NoErr]
    ELSE [crashed |-> FALSE, err |-> stopErr]

\* The record of a call.
ProfCall(op, err, crashed) ==
    [op |-> op, err |-> err, crashed |-> crashed,
     before |-> sProfiler, startedBefore |-> started]

\* func (s *Server) enableProfiler() error
enableProfiler(fails) ==
    /\ pcProf = "running"
    /\ IF profEnv.PROFILER_ENABLED = <<>>
       THEN /\ pLast' = ProfCall("enableProfiler", NoErr, FALSE)
            /\ UNCHANGED <<sProfiler, started>>
       ELSE IF profEnv.PROFILER_SERVER = <<>>
            THEN /\ pLast' = ProfCall("enableProfiler", ErrNoServer, FALSE)
                 /\ UNCHANGED <<sProfiler, started>>
            ELSE LET r == profilerStart(
                              NewProfiler(profEnv.PROFILER_SERVER,
                                          "polygon-edge"),
                              fails, started + 1)
                 IN /\ ~fails => started < MaxStarts
                    /\ sProfiler' = Some(r.p)
                    /\ started' = IF fails THEN started ELSE started + 1
                    /\ pLast' = ProfCall("enableProfiler", r.err, FALSE)
    /\ UNCHANGED <<profEnv, pObj, pcProf>>

\* func (s *Server) stopProfiler() error: s.profiler.Stop(), a method call
\* on a nil interface when no profiler was ever made.
stopProfiler(onNil, stopErr) ==
    /\ pcProf = "running"
    /\ LET r == IF sProfiler = Nil
                THEN [crashed |-> TRUE, err |-> NoErr]
                ELSE profilerStop(sProfiler[1], onNil, stopErr)
       IN /\ pcProf' = IF r.crashed THEN "crashed" ELSE "running"
          /\ pLast' = ProfCall("stopProfiler", r.err, r.crashed)
    /\ UNCHANGED <<profEnv, sProfiler, pObj, started>>

\* profiling.NewProfiler called by another owner.
MakeProfiler(server) ==
    /\ pcProf = "running"
    /\ pObj = Nil
    /\ pObj' = Some(NewProfiler(server, "app"))
    /\ pLast' = ProfCall("NewProfiler", NoErr, FALSE)
    /\ UNCHANGED <<profEnv, sProfiler, started, pcProf>>

\* Start() on that profiler
Start(fails) ==
    /\ pcProf = "running"
    /\ pObj # Nil
    /\ ~fails => started < MaxStarts
    /\ LET r == profilerStart(pObj[1], fails, started + 1)
       IN /\ pObj' = Some(r.p)
          /\ started' = IF fails THEN started ELSE started + 1
          /\ pLast' = ProfCall("Start", r.err, FALSE)
    /\ UNCHANGED <<profEnv, sProfiler, pcProf>>

\* Stop() on that profiler
Stop(onNil, stopErr) ==
    /\ pcProf = "running"
    /\ pObj # Nil
    /\ LET r == profilerStop(pObj[1], onNil, stopErr)
       IN /\ pcProf' = IF r.crashed THEN "crashed" ELSE "running"
          /\ pLast' = ProfCall("Stop", r.err, r.crashed)
    /\ UNCHANGED <<profEnv, sProfiler, pObj, started>>

NoProfCall == [op |-> "none", err |-> NoErr, crashed |-> FALSE,
               before |-> Nil, startedBefore |-> 0]

\* A Server as constructed, in a process with its environment set.
ProfilerNew ==
    /\ profEnv \in [PROFILER_ENABLED : EnabledTexts,
                    PROFILER_SERVER : ServerTexts]
    /\ sProfiler = Nil
    /\ pObj = Nil
    /\ started = 0
    /\ pcProf = "running"
    /\ pLast = NoProfCall

\* The same with the profiler left aside.
ProfilerIdle ==
    /\ profEnv = [PROFILER_ENABLED |-> <<>>, PROFILER_SERVER |-> <<>>]
    /\ sProfiler = Nil
    /\ pObj = Nil
    /\ started = 0
    /\ pcProf = "running"
    /\ pLast = NoProfCall

\* The key-value store of a handle nobody has used yet.
KVStart ==
    /\ kv = [k \in Keys |-> Nil]
    /\ closed = FALSE
    /\ lastOp = NoOp
    /\ prevOp = Brief(NoOp)
    /\ everSet = {}
    /\ lastSet = [k \in Keys |-> Nil]
    /\ engineCalls = 0

InitOpen == OpenStart /\ KVStart /\ MeterIdle /\ ProfilerIdle

NextOpen ==
    \/ \E f \in SyscallSteps \cup {"none"}, o \in BOOLEAN :
          NewLevelDB(f, o) /\ UNCHANGED <<kvVars, meterVars, profVars>>
    \/ \E f \in SyscallSteps \cup {"none"}, o \in BOOLEAN :
          NewLevelDBOlder(f, o) /\ UNCHANGED <<kvVars, meterVars, profVars>>

SpecOpen == InitOpen /\ [][NextOpen]_vars

\* A handle as NewLevelDBStorage returns it: the engine open on a fresh path.
InitKV == OpenDone /\ KVStart /\ MeterIdle /\ ProfilerIdle

NextKV ==
    \/ \E p \in Keys, v \in Values, f \in BOOLEAN :
          Set(p, v, f) /\ UNCHANGED <<openVars, meterVars, profVars>>
    \/ \E p \in Keys, f \in BOOLEAN : Get(p, f) /\ UNCHANGED <<openVars, meterVars, profVars>>
    \/ \E f \in BOOLEAN : Close(f) /\ UNCHANGED <<openVars, meterVars, profVars>>

SpecKV == InitKV /\ [][NextKV]_vars

\* A handle either variant of NewLevelDB has just returned, its metering
\* goroutine entering the loop.
OpenedBy(v) ==
    /\ variant = v
    /\ env = [n \in EnvNames |-> <<>>]
    /\ rlimCur = 1024 /\ rlimMax = 4096 /\ sysCap = 4096
    /\ opts = IF v = "newer"
              THEN [ZeroOptions EXCEPT !.Filter = Some(BloomBits),
                                       !.DisableSeeksCompaction = TRUE]
              ELSE ZeroOptions
    /\ openedWith = [called |-> TRUE,
                     arg |-> IF v = "newer" THEN Some(opts) ELSE Nil]
    /\ ret = [db |-> TheDB, err |-> NoErr]
    /\ fdLimit = Nil
    /\ meters = 1
    /\ pcOpen = "returned"

InitMeter ==
    /\ \E v \in {"older", "newer"} : OpenedBy(v)
    /\ KVStart
    /\ MeterStart
    /\ ProfilerIdle

\* The loop runs while the owner of the handle may close it, once, at any
\* moment.
NextMeter ==
    \/ \E st \in LaterSnapshots(stats), j \in Jitters :
          MeterTick(st, j) /\ UNCHANGED <<kvVars, openVars, profVars>>
    \/ \E x \in ExtraDelays : TimerFires(x) /\ UNCHANGED <<kvVars, openVars, profVars>>
    \/ ~closed /\ Close(FALSE) /\ UNCHANGED <<openVars, meterVars, profVars>>

SpecMeter == InitMeter /\ [][NextMeter]_vars

\* The loop with its timer firing on time and the owner closing the
\* handle at any moment, under the scheduling the runtime gives: the loop's
\* goroutine is run when it can poll, and a timer that was set fires.
MeterPolls ==
    \E st \in LaterSnapshots(stats) :
        MeterTick(st, 0) /\ UNCHANGED <<kvVars, openVars, profVars>>

TimerElapses == TimerFires(0) /\ UNCHANGED <<kvVars, openVars, profVars>>

NextMeterFair ==
    \/ MeterPolls
    \/ TimerElapses
    \/ ~closed /\ Close(FALSE) /\ UNCHANGED <<openVars, meterVars, profVars>>

SpecMeterFair ==
    /\ InitMeter
    /\ [][NextMeterFair]_vars
    /\ WF_vars(MeterPolls)
    /\ WF_vars(TimerElapses)

\* The Server's profiler calls and another owner's, in any order.
InitProfiler == OpenDone /\ KVStart /\ MeterIdle /\ ProfilerNew

NilStops == {"panic", "nil"}

NextProfiler ==
    \/ \E f \in BOOLEAN :
          enableProfiler(f) /\ UNCHANGED <<kvVars, openVars, meterVars>>
    \/ \E n \in NilStops, e \in {NoErr, ErrStop} :
          stopProfiler(n, e) /\ UNCHANGED <<kvVars, openVars, meterVars>>
    \/ \E sv \in ServerTexts :
          MakeProfiler(sv) /\ UNCHANGED <<kvVars, openVars, meterVars>>
    \/ \E f \in BOOLEAN : Start(f) /\ UNCHANGED <<kvVars, openVars, meterVars>>
    \/ \E n \in NilStops, e \in {NoErr, ErrStop} :
          Stop(n, e) /\ UNCHANGED <<kvVars, openVars, meterVars>>

SpecProfiler == InitProfiler /\ [][NextProfiler]_vars


----------------------------------------------------------------------------
\* What Get would return for key p on the store s of an open, healthy engine.
GetOn(s, p) == GetReturn(dbGet(s, FALSE, FALSE, p))

\* C1: on an open store whose engine does not fail, Get of a key that was
\* never passed to Set returns (nil, false, no error): the engine's "not
\* found" sentinel does not reach the caller as an error.
C1_GetAbsentIsNotAnError ==
    (/\ lastOp.op = "Get"
     /\ ~lastOp.wasClosed
     /\ ~lastOp.fault
     /\ lastOp.key \notin everSet)
    => lastOp.res = <<Nil, FALSE, NoErr>>

\* A Get of a never-written key has been answered after Sets and Gets on
\* another key.
C1_Witness ==
    /\ lastOp.op = "Get" /\ ~lastOp.wasClosed /\ ~lastOp.fault
    /\ lastOp.key \notin everSet
    /\ prevOp.op = "Set" /\ prevOp.res[3] = NoErr
    /\ prevOp.key # lastOp.key

\* C2: on an open store whose engine does not fail, Get(k) returns
\* (v, true, no error) where v is the value of the most recent Set(k, v) that
\* reported success.
C2_GetReturnsLatestSet ==
    (/\ lastOp.op = "Get"
     /\ ~lastOp.wasClosed
     /\ ~lastOp.fault
     /\ lastSet[lastOp.key] # Nil)
    => lastOp.res = <<lastSet[lastOp.key], TRUE, NoErr>>

\* Set(k, v) over an older value of k, immediately followed by Get(k).
C2_Witness ==
    /\ lastOp.op = "Get" /\ ~lastOp.wasClosed /\ ~lastOp.fault
    /\ prevOp.op = "Set" /\ prevOp.res[3] = NoErr
    /\ prevOp.key = lastOp.key
    /\ lastOp.res = <<Some(prevOp.val), TRUE, NoErr>>
    /\ \E k \in Keys \ {lastOp.key} :
          lastSet[k] # Nil /\ lastSet[k] # lastSet[lastOp.key]

\* C3: once Close has returned, every later Get, Set and Close on the handle
\* returns a non-nil error and changes nothing, and the handle stays closed.
C3_ClosedHandleFails ==
    (lastOp.op \in {"Get", "Set", "Close"} /\ lastOp.wasClosed)
    => /\ lastOp.res[3] # NoErr
       /\ lastOp.res[2] = FALSE
       /\ closed
       /\ kv = lastOp.before

\* A Get of a key that holds a value, answered after Close.
C3_Witness ==
    /\ lastOp.op = "Get" /\ lastOp.wasClosed
    /\ kv[lastOp.key] # Nil
    /\ prevOp.op = "Close"

\* C10: a successful Set(k, v) repeated leaves every key's Get result as the
\* first one left it.
C10_SetIdempotent ==
    (/\ lastOp.op = "Set" /\ lastOp.res[3] = NoErr
     /\ prevOp.op = "Set" /\ prevOp.res[3] = NoErr
     /\ prevOp.key = lastOp.key /\ prevOp.val = lastOp.val)
    => \A k \in Keys : GetOn(kv, k) = GetOn(lastOp.before, k)

\* The same Set twice in a row, on a store that holds another key too.
C10_Witness ==
    /\ lastOp.op = "Set" /\ lastOp.res[3] = NoErr
    /\ prevOp.op = "Set" /\ prevOp.res[3] = NoErr
    /\ prevOp.key = lastOp.key /\ prevOp.val = lastOp.val
    /\ GetOn(kv, lastOp.key) = <<Some(lastOp.val), TRUE, NoErr>>
    /\ \E k \in Keys \ {lastOp.key} : kv[k] # Nil

----------------------------------------------------------------------------
\* Claims about NewLevelDB, under SpecOpen.

\* The options the engine's open call was given; nil means every default,
\* as the zero options do.
GivenOptions == IF openedWith.arg = Nil THEN ZeroOptions ELSE openedWith.arg[1]

EngineOpened == pcOpen = "returned" /\ openedWith.called /\ ret.err = NoErr

\* raiseAndReturnFDLimit was called and returned no error.
RaiseSucceeded ==
    pcOpen \in {"returned", "panicked"} /\ fdLimit # Nil /\ ret.err # ErrSys

\* a / b of the integers a and b # 0, truncated toward zero, at no width.
TruncDiv(a, b) ==
    LET abs(x) == IF x < 0 THEN -x ELSE x
        q == abs(a) \div abs(b)
    IN IF (a < 0) = (b < 0) THEN q ELSE -q

\* C6: in both variants the engine is opened with BlockCacheCapacity =
\* (v/2) MiB and WriteBuffer = (v/4) MiB exactly when LEVELDB_CACHE_SIZE_MB
\* parses as the integer v, and with both at the engine default otherwise.
C6_CacheSizingApplied ==
    EngineOpened =>
        LET cs == getEnvInt(env, cacheSizeMb)
        IN IF cs[2] = NoErr
           THEN /\ GivenOptions.BlockCacheCapacity = TruncDiv(cs[1], 2) * MiB
                /\ GivenOptions.WriteBuffer = TruncDiv(cs[1], 4) * MiB
           ELSE /\ GivenOptions.BlockCacheCapacity = 0
                /\ GivenOptions.WriteBuffer = 0

\* C7: with the divisor d # 0 parsed and the negotiated limit L, the engine
\* is opened with OpenFilesCacheCapacity = L / d, for every L a uint64 holds.
C7_OpenFilesCapacityIsQuotient ==
    (variant = "newer" /\ EngineOpened /\ fdLimit # Nil
     /\ getEnvInt(env, forceFileDescriptorDivisor)[1] # 0)
    => GivenOptions.OpenFilesCacheCapacity =
           TruncDiv(fdLimit[1], getEnvInt(env, forceFileDescriptorDivisor)[1])

\* C8: when raiseAndReturnFDLimit succeeds, the soft limit in force equals
\* the hard limit (or the platform cap below it), and the value returned is
\* the soft limit in force.
C8_SoftLimitRaisedToHard ==
    RaiseSucceeded =>
        /\ rlimCur = Min(rlimMax, sysCap)
        /\ fdLimit[1] = rlimCur

\* C9: every engine NewLevelDB opens is opened with a bloom filter of 10
\* bits per key and with seek-triggered compaction disabled.
C9_BloomAndSeekAlwaysSet ==
    EngineOpened =>
        /\ openedWith.arg # Nil
        /\ GivenOptions.Filter = Some(BloomBits)
        /\ GivenOptions.DisableSeeksCompaction = TRUE

----------------------------------------------------------------------------
\* Claims about meter, under SpecMeter.

CompactionGaugeNames == {"diskSize", "compactTime", "compactRead", "compactWrite"}

\* C4 as stated: tick 1 emits none of the four compaction gauges; every
\* later tick with a successful poll emits all four, each equal to the
\* difference between this tick's and the previous tick's value of the
\* corresponding quantity.
C4_AllFourAreDifferences ==
    hTick.ok =>
        IF hTick.n = 1
        THEN \A g \in CompactionGaugeNames : emitted[g] = Nil
        ELSE LET cur == hTick.stats
                 prev == hPrev[1]
             IN /\ emitted["diskSize"] =
                       Some(Sum(cur.LevelSizes) - Sum(prev.LevelSizes))
                /\ emitted["compactTime"] =
                       Some(Sum(cur.LevelDurations) - Sum(prev.LevelDurations))
                /\ emitted["compactRead"] =
                       Some(Sum(cur.LevelRead) - Sum(prev.LevelRead))
                /\ emitted["compactWrite"] =
                       Some(Sum(cur.LevelWrite) - Sum(prev.LevelWrite))

\* C4 as amended: tick 1 emits none of the four; every later tick with a
\* successful poll emits all four; compactTime, compactRead and compactWrite
\* are the differences between this tick's and the previous tick's sums,
\* diskSize is this tick's sum of level sizes itself, and each value is
\* emitted as converted to float32.
C4_ThreeDifferencesAndDiskSize ==
    hTick.ok =>
        IF hTick.n = 1
        THEN \A g \in CompactionGaugeNames : emitted[g] = Nil
        ELSE LET cur == hTick.stats
                 prev == hPrev[1]
             IN /\ emitted["diskSize"] = Some(Float32(Sum(cur.LevelSizes)))
                /\ emitted["compactTime"] =
                       Some(Float32(Sum(cur.LevelDurations)
                                    - Sum(prev.LevelDurations)))
                /\ emitted["compactRead"] =
                       Some(Float32(Sum(cur.LevelRead) - Sum(prev.LevelRead)))
                /\ emitted["compactWrite"] =
                       Some(Float32(Sum(cur.LevelWrite) - Sum(prev.LevelWrite)))

\* A third tick whose snapshot differs from the second's in every
\* compaction counter, the second having differed from the first's.
C4_Witness ==
    /\ hTick.ok /\ hTick.n = 3
    /\ hPrev # Nil /\ hPrev[1].comp = 2 /\ hTick.stats.comp = 3
    /\ emitted["compactRead"] = Some(9)
    /\ emitted["diskSize"] = Some(Float32(16777221))

\* C5: no two warnings are recorded less than 60 seconds apart; a stalled
\* tick (write-paused, both write-delay deltas zero) warns when no warning
\* was recorded before or the latest was recorded more than 60 seconds ago;
\* and no tick warns while fewer than 60 seconds have passed since the
\* latest warning, however long the stall lasts.
C5_WarningRateLimited ==
    /\ \A k \in 2..Len(hWarns) : hWarns[k] - hWarns[k - 1] >= Minute
    /\ hTick.ok =>
         /\ (hTick.stalled /\ hTick.lastWarn = Nil) => hTick.warned
         /\ (hTick.stalled /\ hTick.lastWarn # Nil
              /\ hTick.at - hTick.lastWarn[1] > Minute) => hTick.warned
         /\ (hTick.lastWarn # Nil /\ hTick.at - hTick.lastWarn[1] < Minute)
              => ~hTick.warned

\* Three consecutive stalled ticks, the first of which warned and the
\* other two, within 60 seconds of it, did not.
C5_Witness ==
    /\ hTick.ok /\ hTick.stalled /\ hTick.run = 3 /\ hTick.runWarns = 1
    /\ ~hTick.warned
    /\ Len(hWarns) = 1
    /\ hTick.at - hWarns[1] < Minute

\* The warning time the loop held before a tick: the zero time while no
\* warning was recorded.
WarnedBefore(t) == IF t.lastWarn = Nil THEN ZeroTime ELSE t.lastWarn[1]

MeterStep == meterVars' # meterVars

\* C12: the loop is fail-stop and otherwise unbounded.  It ends only by a
\* poll that failed; the tick of that poll emits no gauge and no warning;
\* once ended the loop does nothing more; a poll that succeeds never ends
\* it but leads to the timer wait, and every timer firing leads to the next
\* poll.
C12_FailStopOtherwiseUnbounded ==
    /\ [](pcMeter = "done" =>
            /\ hTick.n >= 1 /\ ~hTick.ok /\ ~hTick.warned
            /\ emitted = NoGauges)
    /\ [][(pcMeter # "done" /\ pcMeter' = "done") =>
            /\ pcMeter = "poll"
            /\ dbStatsErr(closed) # NoErr
            /\ UNCHANGED <<hWarns, lastWritePaused>>]_vars
    /\ [][(pcMeter = "poll" /\ MeterStep) =>
            IF dbStatsErr(closed) # NoErr
            THEN pcMeter' = "done"
            ELSE pcMeter' = "wait" /\ hTick'.ok /\ hTick'.n = hTick.n + 1]_vars
    /\ [][(pcMeter = "wait" /\ MeterStep) => pcMeter' = "poll"]_vars
    /\ [][pcMeter = "done" => ~MeterStep]_vars

\* The loop has ended at its third poll, the first two having succeeded.
C12_Witness ==
    /\ pcMeter = "done"
    /\ hTick.n = 3 /\ ~hTick.ok
    /\ hPrev # Nil
    /\ closed

\* The gauges a tick sets whatever its number and its snapshot.
EveryTickGaugeNames ==
    {"writeDelayNMeter", "writeDelayMeter", "diskRead", "diskWrite",
     "memCompaction", "level0Compaction", "nonlevel0Compaction",
     "seekCompaction"}

\* C13: however Close interleaves with the loop, a poll made while the
\* handle is open succeeds and its tick emits gauges of the snapshot it
\* took; a poll made after Close fails, emits nothing, leaves the loop's
\* records alone and ends the loop; and once the handle is closed the loop
\* eventually ends.
C13_CloseInterleavesCleanly ==
    /\ [][(pcMeter = "poll" /\ MeterStep /\ ~closed) =>
            /\ hTick'.ok /\ pcMeter' = "wait"
            /\ stats' = hTick'.stats
            /\ emitted'["memCompaction"] = Some(Float32(stats'.MemComp))
            /\ emitted'["writeDelayNMeter"] =
                  Some(Float32(stats'.WriteDelayCount - stats.WriteDelayCount))
            /\ hTick'.n > 1 =>
                  emitted'["diskSize"] = Some(Float32(Sum(stats'.LevelSizes)))]_vars
    /\ [][(pcMeter = "poll" /\ MeterStep /\ closed) =>
            /\ ~hTick'.ok /\ pcMeter' = "done"
            /\ emitted' = NoGauges
            /\ UNCHANGED <<stats, compactions, iostats, delaystats,
                           lastWritePaused, hWarns>>]_vars
    /\ [](hTick.ok /\ pcMeter = "wait" =>
            \A g \in EveryTickGaugeNames : emitted[g] # Nil)
    /\ closed ~> (pcMeter = "done")

\* Close came while the loop waited for its timer after a tick that polled
\* the open handle; the next poll failed and ended the loop.
C13_Witness ==
    /\ pcMeter = "done" /\ closed
    /\ lastOp.op = "Close" /\ lastOp.res[3] = NoErr
    /\ hTick.n = 2 /\ ~hTick.ok
    /\ stats # ZeroStats
    /\ emitted = NoGauges

\* C14 as stated: on every tick i >= 2 with a successful poll the diskSize
\* gauge equals the snapshot's sum of level sizes.
C14_DiskSizeIsLevelSizesSum ==
    (hTick.ok /\ hTick.n >= 2) =>
        emitted["diskSize"] = Some(Sum(hTick.stats.LevelSizes))

\* C14 as amended: on every tick i >= 2 with a successful poll the diskSize
\* gauge is the snapshot's sum of level sizes, not a difference from the
\* tick before, as converted to float32.
C14_DiskSizeIsFloat32OfSum ==
    (hTick.ok /\ hTick.n >= 2) =>
        emitted["diskSize"] = Some(Float32(Sum(hTick.stats.LevelSizes)))

\* A tick after the first whose level sizes sum to more than float32 holds
\* exactly, the tick before having reported other sizes.
C14_Witness ==
    /\ hTick.ok /\ hTick.n >= 2
    /\ Sum(hTick.stats.LevelSizes) = 16777221
    /\ emitted["diskSize"] = Some(16777220)
    /\ hPrev # Nil /\ Sum(hPrev[1].LevelSizes) = 9

\* The snapshot of the tick before the latest: every counter 0 before the
\* first tick.
PrevSnapshot == IF hPrev = Nil THEN ZeroStats ELSE hPrev[1]

\* What C15 says of the recorded values and of the warning's test: after a
\* tick the recorded values are the tick's counters, warning or not, and a
\* tick warns only if its write-delay counters are where the tick before
\* left them.
RecordedAfterTick ==
    /\ delaystats = <<hTick.stats.WriteDelayCount,
                      hTick.stats.WriteDelayDuration>>
    /\ iostats = <<hTick.stats.IORead, hTick.stats.IOWrite>>
    /\ hTick.warned =>
          /\ hTick.stats.WriteDelayCount = PrevSnapshot.WriteDelayCount
          /\ hTick.stats.WriteDelayDuration = PrevSnapshot.WriteDelayDuration

\* C15 as stated: on every tick with a successful poll, the first included,
\* writeDelayNMeter, writeDelayMeter, diskRead and diskWrite are emitted
\* with the value current - lastRecorded, lastRecorded being the counter at
\* the tick before (0 before the first); lastRecorded becomes current on
\* every tick, and the warning's test uses the delta before that update.
C15_DeltasAreDifferences ==
    hTick.ok =>
        LET cur == hTick.stats
            prev == PrevSnapshot
        IN /\ emitted["writeDelayNMeter"] =
                 Some(cur.WriteDelayCount - prev.WriteDelayCount)
           /\ emitted["writeDelayMeter"] =
                 Some(cur.WriteDelayDuration - prev.WriteDelayDuration)
           /\ emitted["diskRead"] = Some(cur.IORead - prev.IORead)
           /\ emitted["diskWrite"] = Some(cur.IOWrite - prev.IOWrite)
           /\ RecordedAfterTick

\* C15 as amended: the same, each of the four values emitted as converted
\* to float32.
C15_DeltasAreFloat32OfDifferences ==
    hTick.ok =>
        LET cur == hTick.stats
            prev == PrevSnapshot
        IN /\ emitted["writeDelayNMeter"] =
                 Some(Float32(cur.WriteDelayCount - prev.WriteDelayCount))
           /\ emitted["writeDelayMeter"] =
                 Some(Float32(cur.WriteDelayDuration - prev.WriteDelayDuration))
           /\ emitted["diskRead"] = Some(Float32(cur.IORead - prev.IORead))
           /\ emitted["diskWrite"] = Some(Float32(cur.IOWrite - prev.IOWrite))
           /\ RecordedAfterTick

\* A tick after one that warned: its counters have moved on from counters
\* that were not 0, by more than float32 holds exactly.
C15_Witness ==
    /\ hTick.ok /\ hTick.n = 3 /\ ~hTick.warned
    /\ hTick.lastWarn # Nil
    /\ hPrev # Nil /\ hPrev[1].delay = 2 /\ hTick.stats.delay = 3
    /\ hPrev[1].io = 1 /\ hTick.stats.io = 2
    /\ emitted["writeDelayMeter"] = Some(16777216)
    /\ emitted["diskRead"] = Some(8)
    /\ delaystats = <<1, 16777219>>

----------------------------------------------------------------------------
\* Further claims about NewLevelDB, under SpecOpen.

\* C16: NewLevelDB starts exactly one metering loop when the engine's open
\* succeeded, and only then: none before the open, none when the open
\* failed, none when the options could not be resolved; never more than one.
C16_OneMeterPerSuccessfulOpen ==
    /\ meters <= 1
    /\ meters = 1 <=> (pcOpen = "returned" /\ openedWith.called
                        /\ ret.err = NoErr /\ ret.db # Nil)
    /\ (pcOpen = "returned" /\ ~openedWith.called) => meters = 0
    /\ (pcOpen = "returned" /\ ret.err # NoErr) => meters = 0

\* The newer variant has negotiated the limit, opened the engine and
\* started its one metering loop.
C16_Witness ==
    /\ variant = "newer" /\ pcOpen = "returned"
    /\ fdLimit # Nil /\ openedWith.called
    /\ ret = [db |-> TheDB, err |-> NoErr]
    /\ meters = 1

\* C17: when the divisor is configured and a step of the limit negotiation
\* (read, set, re-read) fails, NewLevelDB returns that error and no handle,
\* without opening the engine or starting a metering loop; when the divisor
\* is absent or does not parse, nothing is negotiated and a failing limit
\* call changes nothing: the outcome is the engine's alone.
C17_NegotiationFailureAborts ==
    [][\A f \in SyscallSteps \cup {"none"}, o \in BOOLEAN :
          NewLevelDB(f, o) =>
              LET div == getEnvInt(env, forceFileDescriptorDivisor)
              IN IF div[2] = NoErr
                 THEN f # "none" =>
                          /\ pcOpen' = "returned"
                          /\ ret' = [db |-> Nil, err |-> ErrSys]
                          /\ ~openedWith'.called
                          /\ meters' = 0
                 ELSE /\ pcOpen' = "returned"
                      /\ fdLimit' = Nil /\ rlimCur' = rlimCur
                      /\ openedWith'.called
                      /\ ret' = IF o THEN [db |-> Nil, err |-> ErrOpen]
                                ELSE [db |-> TheDB, err |-> NoErr]
                      /\ meters' = IF o THEN 0 ELSE 1]_vars

\* The newer variant, its divisor configured, has returned the error of a
\* failed limit call without opening the engine.
C17_Witness ==
    /\ variant = "newer" /\ pcOpen = "returned"
    /\ getEnvInt(env, forceFileDescriptorDivisor) = <<2, NoErr>>
    /\ ret = [db |-> Nil, err |-> ErrSys]
    /\ ~openedWith.called
    /\ meters = 0

\* C19: whatever integer the divisor parses as, 0 and negative values
\* included, NewLevelDB completes by returning an opened handle or an
\* error; it never crashes while computing openFilesCacheCapacity.
C19_DivisorNeverCrashes ==
    (variant = "newer" /\ pcOpen # "init"
     /\ getEnvInt(env, forceFileDescriptorDivisor)[2] = NoErr)
    => /\ pcOpen = "returned"
       /\ ret.db # Nil \/ ret.err # NoErr

----------------------------------------------------------------------------
\* Further claims about levelDBKV, under SpecKV.

\* C18: Get and Set each make exactly one engine call and pass its error on
\* as it is: when the engine's read fails with an error other than the
\* absence sentinel, Get returns (nil, false, that error); when the engine's
\* write fails, Set returns that error; and Get returns a nil error for a
\* failed read only when the error was the absence sentinel.
C18_EngineErrorsPropagate ==
    /\ lastOp.op = "Get" =>
          LET r == dbGet(lastOp.before, lastOp.wasClosed, lastOp.fault,
                         lastOp.key)
          IN /\ engineCalls = 1
             /\ (r[2] # NoErr /\ r[2] # ErrNotFound) =>
                   lastOp.res = <<Nil, FALSE, r[2]>>
             /\ (r[2] # NoErr /\ lastOp.res[3] = NoErr) => r[2] = ErrNotFound
    /\ lastOp.op = "Set" =>
          LET e == dbPutErr(lastOp.wasClosed, lastOp.fault)
          IN /\ engineCalls = 1
             /\ e # NoErr => (lastOp.res[3] = e /\ kv = lastOp.before)

\* The engine failed the read of a key that holds a value, right after it
\* had failed a write, and both failures came back as they were.
C18_Witness ==
    /\ lastOp.op = "Get" /\ lastOp.fault /\ ~lastOp.wasClosed
    /\ kv[lastOp.key] # Nil
    /\ lastOp.res = <<Nil, FALSE, ErrIO>>
    /\ prevOp.op = "Set" /\ prevOp.res[3] = ErrIO
    /\ engineCalls = 1

----------------------------------------------------------------------------
\* The claim about the profiler, under SpecProfiler.

\* C20: Server.stopProfiler and profiler.Stop return nil or an error
\* without crashing in every lifecycle state (profiling never enabled,
\* enableProfiler refused for want of a server, Start never called, Start
\* failed); and enableProfiler with PROFILER_ENABLED set and PROFILER_SERVER
\* empty returns an error without making or starting a profiler.
C20_StopIsSafeInEveryState ==
    /\ pLast.op \in {"stopProfiler", "Stop"} =>
          ~pLast.crashed /\ pcProf = "running"
    /\ (/\ pLast.op = "enableProfiler"
        /\ profEnv.PROFILER_ENABLED # <<>>
        /\ profEnv.PROFILER_SERVER = <<>>)
       => /\ pLast.err = ErrNoServer
          /\ sProfiler = pLast.before
          /\ started = pLast.startedBefore

====
